---------------------------- MODULE Spec2Model ----------------------------
(***************************************************************************)
(* Model of antiplag/tasks.py: the Celery task process_documents and the   *)
(* comparison loop compare_documents, run by worker processes against the  *)
(* shared store (Submission, Document and Result rows).                    *)
(*                                                                         *)
(* Python floats are IEEE-754 binary64.  A non-negative float is kept as   *)
(* the exact fixed-point number <<ip, hi, mid, lo>> standing for           *)
(*     ip + (hi * 2^36 + mid * 2^18 + lo) / 2^54,                          *)
(* and every arithmetic operation rounds to 53 significant bits, to        *)
(* nearest, ties to even, as the hardware does.  All the floats the model  *)
(* computes are either 0 or at least 0.25, where the grid 2^-54 holds      *)
(* every binary64 value exactly.                                           *)
(***************************************************************************)
EXTENDS Integers, Sequences, FiniteSets, TLC

(***************************************************************************)
(* Bounds of the model.                                                    *)
(***************************************************************************)
\* Worker processes of the task queue.
NumWorkers == 2
\* Most candidates the corpus search returns for one document (the code asks
\* for similar_count of them; the index may hold fewer) in a world where
\* anything may fail, and where a task is sent twice.
MaxCand == 1
\* Candidates the corpus search returns in the worlds where nothing fails
\* and one task is sent.
MaxRank == 2

(***************************************************************************)
(* binary64 arithmetic                                                     *)
(***************************************************************************)
Limb == 2 ^ 18

FZero == <<0, 0, 0, 0>>

\* Carries of the low limbs moved upwards: the fixed-point number of the
\* (possibly overflowing) limbs ip, hi, mid, lo.
Normalize(ip, hi, mid, lo) ==
    LET m  == mid + (lo \div Limb)
        h  == hi + (m \div Limb)
    IN  <<ip + (h \div Limb), h % Limb, m % Limb, lo % Limb>>

\* Units of 2^-54 in one unit in the last place of x: x in [2^e, 2^(e+1))
\* has ulp 2^(e-52).
Ulp(x) ==
    IF x[1] >= 1
    THEN 4 * (2 ^ (CHOOSE k \in 0..11 : 2 ^ k <= x[1] /\ x[1] < 2 ^ (k + 1)))
    ELSE IF x[2] >= Limb \div 2 THEN 2 ELSE 1

\* x + (rest / den) units of 2^-54, 0 <= rest < den, rounded to binary64:
\* to nearest, ties to even.
RoundNearestEven(x, rest, den) ==
    LET U    == Ulp(x)
        r    == x[4] % U
        down == <<x[1], x[2], x[3], x[4] - r>>
        up   == Normalize(x[1], x[2], x[3], x[4] - r + U)
        \* twice the discarded part against one ulp, both times den
        twice == 2 * (r * den + rest)
        odd   == IF U = Limb THEN x[3] % 2 = 1 ELSE (x[4] \div U) % 2 = 1
    IN  IF twice > U * den \/ (twice = U * den /\ odd) THEN up ELSE down

\* float.__add__
FloatAdd(a, b) ==
    RoundNearestEven(Normalize(a[1] + b[1], a[2] + b[2], a[3] + b[3], a[4] + b[4]),
                     0, 1)

\* float.__mul__ with the int n (converted exactly): x * n
FloatMulInt(x, n) ==
    RoundNearestEven(Normalize(x[1] * n, x[2] * n, x[3] * n, x[4] * n), 0, 1)

\* float.__truediv__ with the int n (converted exactly): x / n, by long
\* division from the top limb down.
FloatDivInt(x, n) ==
    LET q1 == x[1] \div n
        c2 == (x[1] % n) * Limb + x[2]
        c3 == (c2 % n) * Limb + x[3]
        c4 == (c3 % n) * Limb + x[4]
    IN  RoundNearestEven(<<q1, c2 \div n, c3 \div n, c4 \div n>>, c4 % n, n)

\* float.__gt__
FloatGreater(a, b) ==
    \E i \in 1..4 : a[i] > b[i] /\ \A k \in 1..(i - 1) : a[k] = b[k]

\* math.ceil: the least int not below x
ceil(x) == IF x[2] = 0 /\ x[3] = 0 /\ x[4] = 0 THEN x[1] ELSE x[1] + 1

\* 10 ** round_decimal_places
round_decimal_places == 2
round_factor == 10 ^ round_decimal_places

\* ceil(x * round_factor) / round_factor.  The quotient of the two ints is
\* the float nearest n / round_factor; it is kept as the int n, in units of
\* 1 / round_factor.
RoundUp(x) == ceil(FloatMulInt(x, round_factor))

(***************************************************************************)
(* The store and the collaborators                                         *)
(***************************************************************************)
\* The documents of the submission, in batch order
\* (submission.documents.all()): an uploaded file and a pasted text.  The
\* batch is fixed: every document multiplies the outcomes of the whole run.
Batch == <<"FILE", "TEXT">>
NumDocs == Len(Batch)
DocIds == 1..NumDocs
Workers == 1..NumWorkers

\* Ids of the Submission rows of the store, and the ids a task may be sent.
Submissions == {1}
TaskArgs == {1, 2}

\* antiplag.enums.SubmissionStatus
SubmissionStatus == {"PENDING", "PROCESSING", "PROCESSED"}

\* Texts are sequences of words; None and "" are the two below.
NoneText == <<"None">>
EmptyText == <<>>

\* Document.DocumentType of the documents of the batch.
DocumentType(d) == Batch[d]

\* nlp.text_preprocessing.extract_text_from_file(file.path): the file holds
\* the words that were also pasted as the TEXT document.
process_file(doc) == <<"raw">>

\* langdetect.detect(text_raw)
detect_language(text_raw) == "sk"

\* nlp.text_preprocessing.preprocess_text(text, language=language, ...)[1]:
\* the normalized text is not the raw text.
process_raw_text(text, language) == <<"preprocessed", language>> \o text

\* compare_documents' parameters.  SIMILARITY_THRESHOLD is imported from
\* django_project.settings, whose copy here does not set it: the float 0.5
\* of the specification's scenarios is taken.
threshold == <<0, 131072, 0, 0>>
similar_count == 10

\* What nlp.text_comparison.text_comparison may return as
\* similarity["first_to_second"]["similarity"]: the floats 0.3 (below the
\* threshold), 0.5 (the threshold) and 0.8 (above it).
Float03 == <<0, 78643, 52428, 209715>>
Float08 == <<0, 209715, 52428, 209716>>
Scores == {Float03, threshold, Float08}

\* elastic_id of the i-th candidate Elastic.find_similar returns.
ElasticId(i) == 100 + i

VARIABLES
    env,                \* what the world around the task does in this behaviour
    queue,              \* the task queue: submission ids sent to process_documents
    db_submission,      \* the Submission row: [status, email]
    db_documents,       \* the Document rows of the submission
    db_results,         \* the Result rows, in creation order
    mails,              \* what send_mail has sent: submission ids
    pc,                 \* where each worker is in process_documents
    arg,                \* submission_id
    error,              \* the exception that ended the task, "none" while none
    submission,         \* the Submission object
    documents,          \* the Document objects of the evaluated queryset
    idx,                \* index of document / doc in the current for loop
    similar_documents,  \* elastic ids find_similar returned for doc
    pos,                \* index in the current inner for loop
    result_similarity,
    compared_count,
    ingest_error,       \* history: how the try block ended for the last document ingested
    write_failed,       \* history: a storage write of this run raised
    pair_scores,        \* history: the scores text_comparison returned for doc
    calls               \* history: the calls the task has made, counted

vars == <<env, queue, db_submission, db_documents, db_results, mails, pc, arg, error,
          submission, documents, idx, similar_documents, pos, result_similarity,
          compared_count, ingest_error, write_failed, pair_scores, calls>>

db == <<db_submission, db_documents, db_results>>
compare_locals == <<similar_documents, pos, result_similarity, compared_count,
                    pair_scores>>

\* The rows views.py creates before it sends the task: a PENDING submission,
\* FILE documents with nothing extracted yet, TEXT documents with their body.
InitDocument(d) ==
    [type |-> DocumentType(d),
     text_raw |-> IF DocumentType(d) = "FILE" THEN NoneText ELSE <<"raw">>,
     text |-> NoneText,
     language |-> "None",
     total_percentage |-> -1]

InitDocuments == [d \in DocIds |-> InitDocument(d)]

Emails == {"None", "user@example.com"}

Min(a, b) == IF a <= b THEN a ELSE b

\* The candidates Elastic.find_similar(doc.text, similar_count) may return.
Candidates ==
    {ElasticId(i) : i \in 1..Min(similar_count,
                                 IF MaxCand >= MaxRank THEN MaxCand ELSE MaxRank)}

\* The pairs text_comparison may be called for: a document of the batch and
\* a corpus candidate or a document of the batch, by their ids.
Pairs == DocIds \X (Candidates \cup DocIds)

\* The world of one behaviour: whether anything fails in it (a collaborator
\* or the store raises, a worker dies), how many candidates
\* Elastic.find_similar may return, and what text_comparison may return for
\* each pair.  Here nothing is known of it.
AnyEnv ==
    [faults |-> TRUE,
     found |-> 0..Min(similar_count, MaxCand),
     similarity |-> [p \in Pairs |-> Scores]]

\* The worlds in which nothing fails and the collaborators answer the same
\* question the same way each time: the corpus returns n candidates, at
\* most `most`, for every query, text_comparison returns 0.3 or 0.8 for a
\* pair of different texts and 1.0 for a text and itself.
SteadyEnvs(most) ==
    {[faults |-> FALSE,
      found |-> {n},
      similarity |->
          [p \in Pairs |->
              IF p[1] = p[2] THEN {<<1, 0, 0, 0>>}
              ELSE IF p[2] \in DocIds \cup {ElasticId(i) : i \in 1..n} THEN {f[p]}
              ELSE {Float03}]] :
        n \in 0..Min(similar_count, most), f \in [Pairs -> {Float03, Float08}]}

\* The steady worlds whose corpus returns MaxRank candidates for every query.
RankedEnvs == {e \in SteadyEnvs(MaxRank) : e.found = {Min(similar_count, MaxRank)}}

\* The task has not started: the store as views.py left it, the workers
\* idle.
InitStore ==
    /\ db_documents = InitDocuments
    /\ db_results = <<>>
    /\ mails = <<>>

\* No iteration of the ingestion loop yet, no call of compare_documents,
\* no call of Elastic.find_similar.
NoCalls ==
    [ingest |-> [d \in DocIds |-> 0],
     compare |-> 0,
     find_similar |-> [d \in DocIds |-> 0]]

InitWorkers ==
    /\ calls = [w \in Workers |-> NoCalls]
    /\ pc = [w \in Workers |-> "idle"]
    /\ arg = [w \in Workers |-> 0]
    /\ error = [w \in Workers |-> "none"]
    /\ submission = [w \in Workers |-> [status |-> "None", email |-> "None"]]
    /\ documents = [w \in Workers |-> InitDocuments]
    /\ idx = [w \in Workers |-> 1]
    /\ similar_documents = [w \in Workers |-> <<>>]
    /\ pos = [w \in Workers |-> 1]
    /\ result_similarity = [w \in Workers |-> FZero]
    /\ compared_count = [w \in Workers |-> 0]
    /\ ingest_error = [w \in Workers |-> "none"]
    /\ write_failed = [w \in Workers |-> FALSE]
    /\ pair_scores = [w \in Workers |-> <<>>]

Init ==
    /\ env \in {AnyEnv} \cup RankedEnvs
    /\ queue \in {<<s>> : s \in TaskArgs}
    /\ db_submission \in {[status |-> "PENDING", email |-> e] : e \in Emails}
    /\ InitStore
    /\ InitWorkers

(***************************************************************************)
(* process_documents                                                       *)
(***************************************************************************)
Running(w) == error[w] = "none"

NoSubmission == [status |-> "None", email |-> "None"]

\* The frame of process_documents and compare_documents is gone once the
\* task has returned, raised or died with its process: w's locals as they
\* are between two tasks.
DropLocals(w) ==
    /\ submission' = [submission EXCEPT ![w] = NoSubmission]
    /\ documents' = [documents EXCEPT ![w] = InitDocuments]
    /\ idx' = [idx EXCEPT ![w] = 1]
    /\ similar_documents' = [similar_documents EXCEPT ![w] = <<>>]
    /\ pos' = [pos EXCEPT ![w] = 1]
    /\ result_similarity' = [result_similarity EXCEPT ![w] = FZero]
    /\ compared_count' = [compared_count EXCEPT ![w] = 0]
    /\ pair_scores' = [pair_scores EXCEPT ![w] = <<>>]
    /\ ingest_error' = [ingest_error EXCEPT ![w] = "none"]

\* An exception nothing catches ends the task where it is (pc[w] stays).
Raise(w, exception) ==
    /\ error' = [error EXCEPT ![w] = exception]
    /\ DropLocals(w)
    /\ UNCHANGED pc

\* Whether a call that may raise goes through (TRUE) or raises.
Outcomes == IF env.faults THEN BOOLEAN ELSE {TRUE}

\* A save() or create() raises.
RaiseDatabaseError(w) ==
    /\ Raise(w, "DatabaseError")
    /\ write_failed' = [write_failed EXCEPT ![w] = TRUE]

\* The task returns.
Return(w) ==
    /\ pc' = [pc EXCEPT ![w] = "done"]
    /\ DropLocals(w)
    /\ UNCHANGED error

\* A worker is free before its first task, after a task that returned and
\* after one that raised.
Free(w) ==
    \/ (pc[w] \in {"idle", "done"} /\ Running(w))
    \/ error[w] \notin {"none", "WorkerLostError"}

\* A Celery worker takes the next task of the queue (the lowest free one, so
\* that equal workers are not told apart).
Receive(w) ==
    /\ queue # <<>>
    /\ Free(w)
    /\ \A v \in Workers : v < w => ~Free(v)
    /\ pc' = [pc EXCEPT ![w] = "get"]
    /\ arg' = [arg EXCEPT ![w] = Head(queue)]
    /\ queue' = Tail(queue)
    /\ error' = [error EXCEPT ![w] = "none"]
    /\ write_failed' = [write_failed EXCEPT ![w] = FALSE]
    /\ calls' = [calls EXCEPT ![w] = NoCalls]
    /\ UNCHANGED <<env, db, mails, submission, documents, idx, compare_locals,
                   ingest_error>>

\* Lines 20-23 without the try: DoesNotExist ends the task.
GetSubmissionUncaught(w) ==
    /\ pc[w] = "get" /\ Running(w)
    /\ IF arg[w] \in Submissions
       THEN /\ submission' = [submission EXCEPT ![w] = db_submission]
            /\ pc' = [pc EXCEPT ![w] = "set_processing"]
            /\ UNCHANGED <<error, documents, idx, compare_locals, ingest_error>>
       ELSE Raise(w, "DoesNotExist")
    /\ UNCHANGED <<env, calls, queue, db, mails, arg, write_failed>>

\* Lines 20-23 with the status as a lock: a submission that is not PENDING
\* is left alone.
GetSubmissionPendingOnly(w) ==
    /\ pc[w] = "get" /\ Running(w)
    /\ IF arg[w] \in Submissions /\ db_submission.status = "PENDING"
       THEN /\ submission' = [submission EXCEPT ![w] = db_submission]
            /\ pc' = [pc EXCEPT ![w] = "set_processing"]
            /\ UNCHANGED <<error, documents, idx, compare_locals, ingest_error>>
       ELSE Return(w)
    /\ UNCHANGED <<env, calls, queue, db, mails, arg, write_failed>>

\* Lines 20-23: Submission.objects.get(id=submission_id); any exception
\* returns.
GetSubmission(w) ==
    /\ pc[w] = "get" /\ Running(w)
    /\ IF arg[w] \in Submissions
       THEN /\ submission' = [submission EXCEPT ![w] = db_submission]
            /\ pc' = [pc EXCEPT ![w] = "set_processing"]
            /\ UNCHANGED <<error, documents, idx, compare_locals, ingest_error>>
       ELSE Return(w)
    /\ UNCHANGED <<env, calls, queue, db, mails, arg, write_failed>>

\* Lines 26-29 without the save(): PROCESSING only on the object.
SetProcessingUnsaved(w) ==
    /\ pc[w] = "set_processing" /\ Running(w)
    /\ submission' = [submission EXCEPT ![w].status = "PROCESSING"]
    /\ pc' = [pc EXCEPT ![w] = "ingest"]
    /\ UNCHANGED <<env, calls, queue, db, mails, arg, error, write_failed, documents, idx,
                   compare_locals, ingest_error>>

\* Lines 26-29: status = PROCESSING, save(), the (lazy) documents queryset.
SetProcessing(w) ==
    /\ pc[w] = "set_processing" /\ Running(w)
    /\ \E saved \in Outcomes :
          IF saved
          THEN /\ submission' = [submission EXCEPT ![w].status = "PROCESSING"]
               /\ db_submission' = submission'[w]
               /\ pc' = [pc EXCEPT ![w] = "ingest"]
               /\ UNCHANGED <<error, write_failed, documents, idx, compare_locals,
                              ingest_error>>
          ELSE /\ RaiseDatabaseError(w)
               /\ UNCHANGED db_submission
    /\ UNCHANGED <<env, calls, queue, db_documents, db_results, mails, arg>>

\* Where the try block of lines 32-42 may raise, for this document.
IngestFailures(doc) ==
    IF env.faults
    THEN {"none", "detect", "normalize", "save"}
             \cup (IF doc.type = "FILE" THEN {"extract"} ELSE {})
    ELSE {"none"}

\* Lines 32-39: the assignments the try block makes before `fail` raises.
TryIngest(doc, fail) ==
    LET raw  == IF doc.type = "FILE" /\ fail # "extract"
                THEN process_file(doc) ELSE doc.text_raw
        lang == IF fail \in {"none", "normalize", "save"}
                THEN detect_language(raw) ELSE doc.language
        text == IF fail \in {"none", "save"}
                THEN process_raw_text(raw, lang) ELSE doc.text
    IN  [doc EXCEPT !.text_raw = raw, !.language = lang, !.text = text]

\* The except block without line 48: the text extracted before the failure
\* is kept.
HandleIngestErrorKeepsExtracted(doc) == [doc EXCEPT !.text = doc.text_raw]

\* Lines 47-49: the except block's assignments.
HandleIngestError(doc) ==
    LET raw == IF doc.type = "FILE" THEN EmptyText ELSE doc.text_raw
    IN  [doc EXCEPT !.text_raw = raw, !.text = raw]

\* Lines 31-50 with a break at the end of the except block: a document that
\* fails ends the ingestion loop.
IngestDocumentBreaking(w) ==
    /\ pc[w] = "ingest" /\ Running(w)
    /\ LET d    == idx[w]
           docs == IF d = 1 THEN db_documents ELSE documents[w]
       IN  \E fail \in IngestFailures(docs[d]), saved \in Outcomes :
             LET tried == TryIngest(docs[d], fail)
                 doc   == IF fail = "none" THEN tried ELSE HandleIngestError(tried)
             IN  /\ fail = "none" => saved
                 /\ IF saved
                    THEN /\ documents' = [documents EXCEPT ![w] = [docs EXCEPT ![d] = doc]]
                         /\ db_documents' = [db_documents EXCEPT ![d] = doc]
                         /\ IF d < NumDocs /\ fail = "none"
                            THEN /\ idx' = [idx EXCEPT ![w] = d + 1]
                                 /\ UNCHANGED pc
                            ELSE /\ idx' = [idx EXCEPT ![w] = 1]
                                 /\ pc' = [pc EXCEPT ![w] = "find_similar"]
                         /\ write_failed' = [write_failed EXCEPT ![w] = @ \/ fail = "save"]
                         /\ ingest_error' = [ingest_error EXCEPT ![w] =
                                IF fail \in {"none", "save"} THEN fail ELSE "collaborator"]
                         /\ calls' = [calls EXCEPT
                                ![w].ingest[d] = @ + 1,
                                ![w].compare = IF d < NumDocs /\ fail = "none" THEN @ ELSE @ + 1]
                         /\ UNCHANGED <<error, submission, compare_locals>>
                    ELSE /\ RaiseDatabaseError(w)
                         /\ UNCHANGED <<db_documents, calls>>
    /\ UNCHANGED <<env, queue, db_submission, db_results, mails, arg>>

\* Lines 31-50: one iteration of the ingestion loop.  The queryset is
\* evaluated when the loop starts.  `fail` is where the try block raises
\* ("save": document.save() of line 42), `saved` whether the except block's
\* document.save() of line 50 goes through.
IngestDocument(w) ==
    /\ pc[w] = "ingest" /\ Running(w)
    /\ LET d    == idx[w]
           docs == IF d = 1 THEN db_documents ELSE documents[w]
       IN  \E fail \in IngestFailures(docs[d]), saved \in Outcomes :
             LET tried == TryIngest(docs[d], fail)
                 doc   == IF fail = "none" THEN tried ELSE HandleIngestError(tried)
             IN  /\ fail = "none" => saved
                 /\ IF saved
                    THEN /\ documents' = [documents EXCEPT ![w] = [docs EXCEPT ![d] = doc]]
                         /\ db_documents' = [db_documents EXCEPT ![d] = doc]
                         /\ IF d < NumDocs
                            THEN /\ idx' = [idx EXCEPT ![w] = d + 1]
                                 /\ UNCHANGED pc
                            ELSE /\ idx' = [idx EXCEPT ![w] = 1]
                                 /\ pc' = [pc EXCEPT ![w] = "find_similar"]
                         /\ write_failed' = [write_failed EXCEPT ![w] = @ \/ fail = "save"]
                         /\ ingest_error' = [ingest_error EXCEPT ![w] =
                                IF fail \in {"none", "save"} THEN fail ELSE "collaborator"]
                         /\ calls' = [calls EXCEPT
                                ![w].ingest[d] = @ + 1,
                                ![w].compare = IF d < NumDocs THEN @ ELSE @ + 1]
                         /\ UNCHANGED <<error, submission, compare_locals>>
                    ELSE /\ RaiseDatabaseError(w)
                         /\ UNCHANGED <<db_documents, calls>>
    /\ UNCHANGED <<env, queue, db_submission, db_results, mails, arg>>

\* Lines 56-57 with the status of line 26 written again.
SetProcessedAsProcessing(w) ==
    /\ pc[w] = "set_processed" /\ Running(w)
    /\ \E saved \in Outcomes :
          IF saved
          THEN /\ submission' = [submission EXCEPT ![w].status = "PROCESSING"]
               /\ db_submission' = submission'[w]
               /\ pc' = [pc EXCEPT ![w] = "send_mail"]
               /\ idx' = [idx EXCEPT ![w] = 1]
               /\ similar_documents' = [similar_documents EXCEPT ![w] = <<>>]
               /\ pos' = [pos EXCEPT ![w] = 1]
               /\ result_similarity' = [result_similarity EXCEPT ![w] = FZero]
               /\ compared_count' = [compared_count EXCEPT ![w] = 0]
               /\ pair_scores' = [pair_scores EXCEPT ![w] = <<>>]
               /\ UNCHANGED <<error, write_failed, documents, ingest_error>>
          ELSE /\ RaiseDatabaseError(w)
               /\ UNCHANGED db_submission
    /\ UNCHANGED <<env, calls, queue, db_documents, db_results, mails, arg>>

\* Lines 56-57: compare_documents has returned (its locals are gone);
\* status = PROCESSED, save().
SetProcessed(w) ==
    /\ pc[w] = "set_processed" /\ Running(w)
    /\ \E saved \in Outcomes :
          IF saved
          THEN /\ submission' = [submission EXCEPT ![w].status = "PROCESSED"]
               /\ db_submission' = submission'[w]
               /\ pc' = [pc EXCEPT ![w] = "send_mail"]
               /\ idx' = [idx EXCEPT ![w] = 1]
               /\ similar_documents' = [similar_documents EXCEPT ![w] = <<>>]
               /\ pos' = [pos EXCEPT ![w] = 1]
               /\ result_similarity' = [result_similarity EXCEPT ![w] = FZero]
               /\ compared_count' = [compared_count EXCEPT ![w] = 0]
               /\ pair_scores' = [pair_scores EXCEPT ![w] = <<>>]
               /\ UNCHANGED <<error, write_failed, documents, ingest_error>>
          ELSE /\ RaiseDatabaseError(w)
               /\ UNCHANGED db_submission
    /\ UNCHANGED <<env, calls, queue, db_documents, db_results, mails, arg>>

\* Lines 61-68 without the test of line 60.
SendMailUnconditional(w) ==
    /\ pc[w] = "send_mail" /\ Running(w)
    /\ \E sent \in Outcomes :
          IF sent
          THEN /\ mails' = Append(mails, arg[w])
               /\ Return(w)
          ELSE /\ Raise(w, "SMTPException")
               /\ UNCHANGED mails
    /\ UNCHANGED <<env, calls, queue, db, arg, write_failed>>

\* Lines 60-68: send_mail(..., fail_silently=False) when there is an address.
SendMail(w) ==
    /\ pc[w] = "send_mail" /\ Running(w)
    /\ IF submission[w].email # "None"
       THEN \E sent \in Outcomes :
              IF sent
              THEN /\ mails' = Append(mails, arg[w])
                   /\ Return(w)
              ELSE /\ Raise(w, "SMTPException")
                   /\ UNCHANGED mails
       ELSE /\ Return(w)
            /\ UNCHANGED mails
    /\ UNCHANGED <<env, calls, queue, db, arg, write_failed>>

\* The worker process dies and the broker, not having had the task
\* acknowledged, delivers it again (acks_late).
CrashRedelivered(w) ==
    /\ env.faults
    /\ pc[w] \notin {"idle", "done"} /\ Running(w)
    /\ error' = [error EXCEPT ![w] = "WorkerLostError"]
    /\ pc' = [pc EXCEPT ![w] = "lost"]
    /\ queue' = Append(queue, arg[w])
    /\ DropLocals(w)
    /\ UNCHANGED <<env, calls, db, mails, arg, write_failed>>

\* The worker process dies in the middle of a task, and its memory with it.
Crash(w) ==
    /\ env.faults
    /\ pc[w] \notin {"idle", "done"} /\ Running(w)
    /\ error' = [error EXCEPT ![w] = "WorkerLostError"]
    /\ pc' = [pc EXCEPT ![w] = "lost"]
    /\ DropLocals(w)
    /\ UNCHANGED <<env, calls, queue, db, mails, arg, write_failed>>

(***************************************************************************)
(* compare_documents                                                       *)
(***************************************************************************)
\* Line 108 without line 109: doc stays in the list.
user_documents_with_doc(d) == [i \in 1..NumDocs |-> i]

\* Lines 108-109: list(documents) without doc, in batch order.
user_documents(d) ==
    LET Other(x) == x # d
    IN  SelectSeq([i \in 1..NumDocs |-> i], Other)

\* Where the loops of doc go on once the iteration at pos of the loop pc[w]
\* is over.
Advance(w) ==
    LET d == idx[w]
    IN  IF \/ (pc[w] = "corpus" /\ pos[w] < Len(similar_documents[w]))
           \/ (pc[w] = "uploaded" /\ pos[w] < Len(user_documents(d)))
        THEN /\ pos' = [pos EXCEPT ![w] = @ + 1]
             /\ UNCHANGED pc
        ELSE /\ pos' = [pos EXCEPT ![w] = 1]
             /\ pc' = [pc EXCEPT ![w] =
                    IF pc[w] = "corpus" /\ user_documents(d) # <<>>
                    THEN "uploaded" ELSE "save_total"]

\* The list iterated from its end.
FoundDocumentsReversed(n) == [i \in 1..n |-> ElasticId(n + 1 - i)]

\* Lines 105 and 115: the n candidates of the corpus, in the order
\* find_similar returns them and the loop takes them.
FoundDocuments(n) == [i \in 1..n |-> ElasticId(i)]

\* Lines 99-112 with doc.results.all().delete() before the loops: the
\* Results of earlier runs make way for the new ones.
FindSimilarClearing(w) ==
    /\ pc[w] = "find_similar" /\ Running(w)
    /\ \/ (env.faults /\ Raise(w, "ElasticsearchException") /\ UNCHANGED db_results)
       \/ \E n \in env.found :
            /\ similar_documents' =
                   [similar_documents EXCEPT ![w] = FoundDocuments(n)]
            /\ result_similarity' = [result_similarity EXCEPT ![w] = FZero]
            /\ compared_count' = [compared_count EXCEPT ![w] = 0]
            /\ pair_scores' = [pair_scores EXCEPT ![w] = <<>>]
            /\ pos' = [pos EXCEPT ![w] = 1]
            /\ pc' = [pc EXCEPT ![w] =
                   IF n > 0 THEN "corpus"
                   ELSE IF user_documents(idx[w]) # <<>> THEN "uploaded"
                   ELSE "save_total"]
            /\ ingest_error' = [ingest_error EXCEPT ![w] = "none"]
            /\ LET Others(r) == r.document # idx[w]
               IN  db_results' = SelectSeq(db_results, Others)
            /\ UNCHANGED <<error, submission, documents, idx>>
    /\ calls' = [calls EXCEPT ![w].find_similar[idx[w]] = @ + 1]
    /\ UNCHANGED <<env, queue, db_submission, db_documents, mails, arg, write_failed>>

\* Lines 99-112 with line 112 before the loop of line 99: compared_count is
\* set to 0 once, not for every doc.
FindSimilarKeepingCount(w) ==
    /\ pc[w] = "find_similar" /\ Running(w)
    /\ \/ (env.faults /\ Raise(w, "ElasticsearchException"))
       \/ \E n \in env.found :
            /\ similar_documents' =
                   [similar_documents EXCEPT ![w] = FoundDocuments(n)]
            /\ result_similarity' = [result_similarity EXCEPT ![w] = FZero]
            /\ UNCHANGED compared_count
            /\ pair_scores' = [pair_scores EXCEPT ![w] = <<>>]
            /\ pos' = [pos EXCEPT ![w] = 1]
            /\ pc' = [pc EXCEPT ![w] =
                   IF n > 0 THEN "corpus"
                   ELSE IF user_documents(idx[w]) # <<>> THEN "uploaded"
                   ELSE "save_total"]
            /\ ingest_error' = [ingest_error EXCEPT ![w] = "none"]
            /\ UNCHANGED <<error, submission, documents, idx>>
    /\ calls' = [calls EXCEPT ![w].find_similar[idx[w]] = @ + 1]
    /\ UNCHANGED <<env, queue, db, mails, arg, write_failed>>

\* Lines 99-112: Elastic.find_similar(doc.text, similar_count), which may
\* raise, and the start of doc's loops.
FindSimilar(w) ==
    /\ pc[w] = "find_similar" /\ Running(w)
    /\ \/ (env.faults /\ Raise(w, "ElasticsearchException"))
       \/ \E n \in env.found :
            /\ similar_documents' =
                   [similar_documents EXCEPT ![w] = FoundDocuments(n)]
            /\ result_similarity' = [result_similarity EXCEPT ![w] = FZero]
            /\ compared_count' = [compared_count EXCEPT ![w] = 0]
            /\ pair_scores' = [pair_scores EXCEPT ![w] = <<>>]
            /\ pos' = [pos EXCEPT ![w] = 1]
            /\ pc' = [pc EXCEPT ![w] =
                   IF n > 0 THEN "corpus"
                   ELSE IF user_documents(idx[w]) # <<>> THEN "uploaded"
                   ELSE "save_total"]
            /\ ingest_error' = [ingest_error EXCEPT ![w] = "none"]
            /\ UNCHANGED <<error, submission, documents, idx>>
    /\ calls' = [calls EXCEPT ![w].find_similar[idx[w]] = @ + 1]
    /\ UNCHANGED <<env, queue, db, mails, arg, write_failed>>

\* The except blocks counting the pair as compared (the TODO of lines 122
\* and 145 answered with yes).
PairRaisesCounted(w) ==
    /\ env.faults
    /\ Advance(w)
    /\ compared_count' = [compared_count EXCEPT ![w] = @ + 1]
    /\ UNCHANGED <<env, calls, queue, db, mails, arg, error, submission, documents, idx,
                   similar_documents, result_similarity, ingest_error,
                   write_failed, pair_scores>>

\* Lines 117-123 and 140-146: text_comparison raises; continue.
PairRaises(w) ==
    /\ env.faults
    /\ Advance(w)
    /\ UNCHANGED <<env, calls, queue, db, mails, arg, error, submission, documents, idx,
                   similar_documents, result_similarity, compared_count,
                   ingest_error, write_failed, pair_scores>>

\* The comparison with >= for >.
ExceedsOrEquals(similarity) == ~FloatGreater(threshold, similarity)

\* Lines 125 and 148: similarity > threshold
Exceeds(similarity) == FloatGreater(similarity, threshold)

\* Lines 127-136 and 151-160: the row doc.results.create(...) makes.
NewResult(d, match_type, match_id, similarity) ==
    [document |-> d, match_type |-> match_type, match_id |-> match_id,
     percentage |-> RoundUp(similarity)]

\* Lines 117-136 and 140-160: text_comparison returns `similarity`.
PairScored(w, match_type, match_id) ==
    \E similarity \in env.similarity[<<idx[w], match_id>>], created \in Outcomes :
        /\ ~Exceeds(similarity) => created
        /\ IF created
           THEN /\ result_similarity' =
                       [result_similarity EXCEPT ![w] = FloatAdd(@, similarity)]
                /\ pair_scores' = [pair_scores EXCEPT ![w] = Append(@, similarity)]
                /\ IF Exceeds(similarity)
                   THEN /\ compared_count' = [compared_count EXCEPT ![w] = @ + 1]
                        /\ db_results' = Append(db_results,
                               NewResult(idx[w], match_type, match_id, similarity))
                   ELSE UNCHANGED <<compared_count, db_results>>
                /\ Advance(w)
                /\ UNCHANGED <<error, write_failed, submission, documents, idx,
                               similar_documents, ingest_error>>
           ELSE /\ RaiseDatabaseError(w)
                /\ UNCHANGED db_results
        /\ UNCHANGED <<env, calls, queue, db_submission, db_documents, mails, arg>>

\* Lines 115-136: one iteration over similar_documents.
CorpusRaises(w) == pc[w] = "corpus" /\ Running(w) /\ PairRaises(w)

CorpusScored(w) ==
    /\ pc[w] = "corpus" /\ Running(w)
    /\ PairScored(w, "CORPUS", similar_documents[w][pos[w]])

\* Lines 139-160: one iteration over user_documents.
UploadedRaises(w) == pc[w] = "uploaded" /\ Running(w) /\ PairRaises(w)

UploadedScored(w) ==
    /\ pc[w] = "uploaded" /\ Running(w)
    /\ PairScored(w, "UPLOADED", user_documents(idx[w])[pos[w]])

\* The average with an else branch: 0 when nothing exceeded the threshold.
AverageZeroWithoutMatch(similarity_sum, count) ==
    IF count > 0 THEN FloatDivInt(similarity_sum, count) ELSE FZero

\* The average clamped to 1.
AverageClamped(similarity_sum, count) ==
    LET average == IF count > 0 THEN FloatDivInt(similarity_sum, count)
                   ELSE similarity_sum
    IN  IF FloatGreater(average, <<1, 0, 0, 0>>) THEN <<1, 0, 0, 0>> ELSE average

\* Lines 162-163
Average(similarity_sum, count) ==
    IF count > 0 THEN FloatDivInt(similarity_sum, count) ELSE similarity_sum

\* The Results of document d, in creation order.
ResultsOf(d) ==
    LET Mine(r) == r.document = d
    IN  SelectSeq(db_results, Mine)

\* Lines 162-167 with the Results of doc in the store counted
\* (doc.results.count()) for compared_count.
SaveTotalOverResults(w) ==
    /\ pc[w] = "save_total" /\ Running(w)
    /\ LET d       == idx[w]
           average == Average(result_similarity[w], Len(ResultsOf(d)))
       IN  \E saved \in Outcomes :
                IF saved
                THEN /\ result_similarity' = [result_similarity EXCEPT ![w] = average]
                     /\ documents' = [documents EXCEPT ![w][d].total_percentage =
                                          RoundUp(average)]
                     /\ db_documents' = [db_documents EXCEPT ![d] = documents'[w][d]]
                     /\ idx' = [idx EXCEPT ![w] = d + 1]
                     /\ pc' = [pc EXCEPT ![w] =
                            IF d < NumDocs THEN "find_similar" ELSE "set_processed"]
                     /\ UNCHANGED <<error, write_failed, submission,
                                    similar_documents, pos, compared_count,
                                    pair_scores, ingest_error>>
                ELSE /\ RaiseDatabaseError(w)
                     /\ UNCHANGED db_documents
    /\ UNCHANGED <<env, calls, queue, db_submission, db_results, mails, arg>>

\* Lines 162-167: the aggregate of doc, saved; then the next doc.
SaveTotal(w) ==
    /\ pc[w] = "save_total" /\ Running(w)
    /\ LET d       == idx[w]
           average == Average(result_similarity[w], compared_count[w])
       IN  \E saved \in Outcomes :
                IF saved
                THEN /\ result_similarity' = [result_similarity EXCEPT ![w] = average]
                     /\ documents' = [documents EXCEPT ![w][d].total_percentage =
                                          RoundUp(average)]
                     /\ db_documents' = [db_documents EXCEPT ![d] = documents'[w][d]]
                     /\ idx' = [idx EXCEPT ![w] = d + 1]
                     /\ pc' = [pc EXCEPT ![w] =
                            IF d < NumDocs THEN "find_similar" ELSE "set_processed"]
                     /\ UNCHANGED <<error, write_failed, submission,
                                    similar_documents, pos, compared_count,
                                    pair_scores, ingest_error>>
                ELSE /\ RaiseDatabaseError(w)
                     /\ UNCHANGED db_documents
    /\ UNCHANGED <<env, calls, queue, db_submission, db_results, mails, arg>>

(***************************************************************************)
(* The system: one task of the queue, run by a worker.                     *)
(***************************************************************************)
Next ==
    \E w \in Workers :
        \/ Receive(w)
        \/ GetSubmission(w)
        \/ SetProcessing(w)
        \/ IngestDocument(w)
        \/ FindSimilar(w)
        \/ CorpusRaises(w)
        \/ CorpusScored(w)
        \/ UploadedRaises(w)
        \/ UploadedScored(w)
        \/ SaveTotal(w)
        \/ SetProcessed(w)
        \/ SendMail(w)
        \/ Crash(w)

Spec == Init /\ [][Next]_vars

(***************************************************************************)
(* process_documents sent twice for the same submission, in a world where  *)
(* nothing fails: the two tasks run one after the other on one worker or   *)
(* side by side on two.                                                    *)
(***************************************************************************)
InitRerun ==
    /\ env \in SteadyEnvs(MaxCand)
    /\ queue = <<1, 1>>
    /\ db_submission \in {[status |-> "PENDING", email |-> e] : e \in Emails}
    /\ InitStore
    /\ InitWorkers

NextRerun ==
    \E w \in Workers :
        \/ Receive(w)
        \/ GetSubmission(w)
        \/ SetProcessing(w)
        \/ IngestDocument(w)
        \/ FindSimilar(w)
        \/ CorpusScored(w)
        \/ UploadedScored(w)
        \/ SaveTotal(w)
        \/ SetProcessed(w)
        \/ SendMail(w)

SpecRerun == InitRerun /\ [][NextRerun]_vars

(***************************************************************************)
(* What the claims speak of                                                *)
(***************************************************************************)
Ended(w) == pc[w] = "done" \/ ~Running(w)

\* doc's aggregate has just been saved: its loops' locals still stand.
Aggregated(w) ==
    Running(w) /\ pc[w] \in {"find_similar", "set_processed"} /\ idx[w] > 1

LastDoc(w) == idx[w] - 1

\* The document whose ingestion iteration was the last to end.
LastIngested(w) == IF pc[w] = "ingest" THEN idx[w] - 1 ELSE NumDocs

IntFloat(n) == <<n, 0, 0, 0>>

\* n is the least integer not below the float x.
IsCeil(n, x) == ~FloatGreater(x, IntFloat(n)) /\ FloatGreater(x, IntFloat(n - 1))

\* The floats of a sequence added up from the left, as a loop does.
RECURSIVE FloatSum(_)
FloatSum(scores) ==
    IF scores = <<>> THEN FZero
    ELSE FloatAdd(FloatSum(SubSeq(scores, 1, Len(scores) - 1)), scores[Len(scores)])

\* C1: a run on an existing submission in which no storage write fails and
\* the worker does not die ends with the stored status PROCESSED, however
\* many documents fail ingestion and however many pairs fail.  (What
\* "eventually PROCESSED" comes to once the run has ended.)
C1_EndsProcessed ==
    \A w \in Workers :
        (/\ pc[w] # "idle" /\ arg[w] \in Submissions
         /\ Ended(w)
         /\ ~write_failed[w]
         /\ error[w] # "WorkerLostError")
        => db_submission.status = "PROCESSED"

C3_NoCollaboratorEscapes ==
    \A w \in Workers :
        error[w] \in {"none", "DatabaseError", "SMTPException", "WorkerLostError"}

\* C4: a storage write that fails is not masked: the run in which it failed
\* has ended with that failure.
C4_WriteFailurePropagates ==
    \A w \in Workers : write_failed[w] => error[w] = "DatabaseError"

\* C5: when the try block of a document's ingestion raises in extraction,
\* detection or normalization, a FILE document ends with "" as its raw text,
\* a TEXT document with its raw text as it was, the normalized text is the
\* raw text, the document is saved so, and the run goes on with the next
\* document (or with the comparison after the last).
C5_IngestionDegrades ==
    \A w \in Workers :
        ingest_error[w] = "collaborator"
        => LET d   == LastIngested(w)
               doc == documents[w][d]
           IN  /\ Running(w)
               /\ doc.text_raw = IF doc.type = "FILE" THEN EmptyText
                                 ELSE InitDocument(d).text_raw
               /\ doc.text = doc.text_raw
               /\ db_documents[d] = doc
               /\ \/ (pc[w] = "ingest" /\ idx[w] = d + 1)
                  \/ (pc[w] = "find_similar" /\ d = NumDocs /\ idx[w] = 1)

\* The FILE document and then the TEXT document were degraded, and the run
\* has reached the comparison.
C5_Witness ==
    \E w \in Workers :
        /\ ingest_error[w] = "collaborator" /\ pc[w] = "find_similar"
        /\ documents[w][1].text_raw = EmptyText /\ documents[w][1].text = EmptyText
        /\ documents[w][2].text = <<"raw">>
        /\ db_documents = documents[w]

\* A step of w that ends an iteration of one of doc's two loops.
PairStep(w) ==
    /\ pc[w] \in {"corpus", "uploaded"} /\ Running(w)
    /\ error'[w] = "none"
    /\ pc'[w] # pc[w] \/ pos'[w] # pos[w]

\* The loop goes on: with its next element, or with what follows the loop.
LoopGoesOn(w) ==
    /\ idx'[w] = idx[w]
    /\ \/ (pc'[w] = pc[w] /\ pos'[w] = pos[w] + 1)
       \/ (pc[w] = "corpus" /\ pos[w] = Len(similar_documents[w])
             /\ pc'[w] = "uploaded" /\ pos'[w] = 1)
       \/ (pc[w] = "uploaded" /\ pos[w] = Len(user_documents(idx[w]))
             /\ pc'[w] = "save_total")

CurrentMatch(w) ==
    IF pc[w] = "corpus"
    THEN [match_type |-> "CORPUS", match_id |-> similar_documents[w][pos[w]]]
    ELSE [match_type |-> "UPLOADED", match_id |-> user_documents(idx[w])[pos[w]]]

\* C7: a pair the engine scored gets a Result exactly when its score is
\* strictly above the threshold (none at the threshold), one Result, of
\* match_type CORPUS for a candidate and UPLOADED for a sibling, with the
\* candidate's or sibling's id, and with the score times round_factor
\* rounded up as its percentage (in units of 1 / round_factor).
C7_ResultIffAboveThreshold ==
    [][\A w \in Workers :
          (PairStep(w) /\ Len(pair_scores'[w]) = Len(pair_scores[w]) + 1)
          => LET score == pair_scores'[w][Len(pair_scores'[w])]
             IN  IF FloatGreater(score, threshold)
                 THEN \E r \in {db_results'[Len(db_results')]} :
                        /\ db_results' = Append(db_results, r)
                        /\ r.document = idx[w]
                        /\ r.match_type = CurrentMatch(w).match_type
                        /\ r.match_id = CurrentMatch(w).match_id
                        /\ IsCeil(r.percentage,
                                  FloatMulInt(score, 10 ^ round_decimal_places))
                 ELSE db_results' = db_results]_vars

\* The first document matched its candidate (0.8) and not its sibling,
\* scored at the threshold; the second matched its sibling (0.8) and not its
\* candidate, scored below: two Results, one of each type.
C7_Witness ==
    \E w \in Workers :
        /\ Aggregated(w) /\ LastDoc(w) = 2
        /\ pair_scores[w] = <<Float03, Float08>>
        /\ db_results =
             << [document |-> 1, match_type |-> "CORPUS", match_id |-> ElasticId(1),
                 percentage |-> 80],
                [document |-> 2, match_type |-> "UPLOADED", match_id |-> 1,
                 percentage |-> 80] >>
        /\ db_documents[1].total_percentage = 130

\* The scores of a sequence that are strictly above the threshold.
Matches(scores) == {i \in 1..Len(scores) : FloatGreater(scores[i], threshold)}

\* The scenario of C8: one candidate scoring 0.8, one sibling scoring 0.3.
C8_Scenario(w) ==
    /\ Aggregated(w)
    /\ Len(similar_documents[w]) = 1
    /\ pair_scores[w] = <<Float08, Float03>>

\* C8, as claimed: with one candidate at 0.8 and one sibling at 0.3 the
\* stored total_percentage is 1.10.
C8_Stores110 ==
    \A w \in Workers :
        C8_Scenario(w) => db_documents[LastDoc(w)].total_percentage = 110

\* C8, amended: with compared_count > 0 the stored total_percentage is the
\* sum of the scores of all the scored pairs, divided by the number of those
\* above the threshold, times round_factor, rounded up, in binary floating
\* point and without clamping to 1; with one candidate at 0.8 and one
\* sibling at 0.3 that is 1.11, since 1.1 * 100 is 110.00000000000001.
C8_UnclampedAverage ==
    \A w \in Workers :
        (Aggregated(w) /\ compared_count[w] > 0)
        => /\ compared_count[w] = Cardinality(Matches(pair_scores[w]))
           /\ IsCeil(db_documents[LastDoc(w)].total_percentage,
                     FloatMulInt(FloatDivInt(FloatSum(pair_scores[w]),
                                             Cardinality(Matches(pair_scores[w]))),
                                 10 ^ round_decimal_places))
           /\ (C8_Scenario(w)
                 => db_documents[LastDoc(w)].total_percentage = 111)

C8_Witness ==
    \E w \in Workers :
        /\ C8_Scenario(w) /\ compared_count[w] = 1
        /\ db_documents[LastDoc(w)].total_percentage = 111

\* C9: process_documents sent an id of no Submission returns without
\* raising and changes no row and sends no mail.
C9_UnknownIdNoOp ==
    [][\A w \in Workers :
          (/\ pc[w] = "get" /\ Running(w) /\ arg[w] \notin Submissions
           /\ (pc'[w] # pc[w] \/ error'[w] # error[w])
           /\ error'[w] # "WorkerLostError")
          => /\ pc'[w] = "done" /\ error'[w] = "none"
             /\ UNCHANGED <<db_submission, db_documents, db_results, mails>>]_vars

\* The task has returned, nothing raised, the store as views.py left it.
C9_Witness ==
    \E w \in Workers :
        /\ pc[w] = "done" /\ error[w] = "none" /\ arg[w] \notin Submissions
        /\ db_submission.status = "PENDING" /\ db_documents = InitDocuments
        /\ db_results = <<>> /\ mails = <<>>

\* C10: in a run on an existing submission the status PROCESSING is in the
\* store before the first document is ingested and before any comparison or
\* Result: wherever a worker is past the save of line 27, and whenever a
\* Document row has changed or a Result exists, the stored status is no
\* longer PENDING.
C10_ProcessingFirst ==
    (\/ \E w \in Workers :
            pc[w] \in {"ingest", "find_similar", "corpus", "uploaded",
                       "save_total", "set_processed", "send_mail"}
     \/ db_documents # InitDocuments
     \/ db_results # <<>>)
    => db_submission.status \in {"PROCESSING", "PROCESSED"}

\* The loop of line 31 is about to take the first document: PROCESSING is
\* stored and no document has been touched.
C10_Witness ==
    \E w \in Workers :
        /\ pc[w] = "ingest" /\ idx[w] = 1 /\ Running(w)
        /\ db_submission.status = "PROCESSING"
        /\ db_documents = InitDocuments /\ db_results = <<>>

\* Where a task is between its two writes of the status.
MidRun == {"ingest", "find_similar", "corpus", "uploaded", "save_total",
           "set_processed"}

\* C11: a notification is sent only for a submission that has an address
\* and only by a task that has stored PROCESSED (a task comes to send_mail
\* by the step that stores it), one mail naming the submission; and a
\* send_mail that raises ends the task and leaves the stored submission as
\* it was: PROCESSED, unless another task for it is in the middle of its
\* run.
C11_MailAfterProcessed ==
    [][/\ \A w \in Workers :
             (pc[w] # "send_mail" /\ pc'[w] = "send_mail")
             => /\ db_submission'.status = "PROCESSED"
                /\ submission'[w] = db_submission'
       /\ mails' # mails
          => /\ db_submission.email # "None"
             /\ db_submission' = db_submission
             /\ \E w \in Workers :
                   /\ pc[w] = "send_mail" /\ pc'[w] = "done"
                   /\ submission[w].status = "PROCESSED"
                   /\ mails' = Append(mails, arg[w])
       /\ \A w \in Workers :
             (error[w] = "none" /\ error'[w] = "SMTPException")
             => /\ pc[w] = "send_mail"
                /\ db_submission' = db_submission
                /\ db_submission.email # "None"
                /\ \/ db_submission.status = "PROCESSED"
                   \/ \E v \in Workers \ {w} : pc[v] \in MidRun
                /\ mails' = mails]_vars

\* send_mail has raised: no mail, and PROCESSED stays stored.
C11_Witness ==
    \E w \in Workers :
        /\ error[w] = "SMTPException" /\ pc[w] = "send_mail"
        /\ db_submission = [status |-> "PROCESSED", email |-> "user@example.com"]
        /\ mails = <<>>

\* C12: no document is compared with itself: the sibling pool of d is the
\* batch without d, whatever the texts, the sibling under comparison is
\* never d, and no UPLOADED Result of d names d.
C12_NoSelfComparison ==
    /\ \A w \in Workers :
          (pc[w] = "uploaded" /\ Running(w))
          => /\ {user_documents(idx[w])[i] : i \in 1..Len(user_documents(idx[w]))}
                    = DocIds \ {idx[w]}
             /\ Len(user_documents(idx[w])) = NumDocs - 1
             /\ pos[w] \in 1..(NumDocs - 1)
             /\ user_documents(idx[w])[pos[w]] # idx[w]
    /\ \A i \in 1..Len(db_results) :
          db_results[i].match_type = "UPLOADED"
          => db_results[i].match_id \in DocIds \ {db_results[i].document}

\* The two documents have the same text, and each has an UPLOADED Result
\* naming the other.
C12_Witness ==
    \E w \in Workers :
        /\ Aggregated(w) /\ LastDoc(w) = 2
        /\ documents[w][1].text = documents[w][2].text
        /\ \E i, j \in 1..Len(db_results) :
              /\ db_results[i].match_type = "UPLOADED"
              /\ db_results[i].document = 1 /\ db_results[i].match_id = 2
              /\ db_results[j].match_type = "UPLOADED"
              /\ db_results[j].document = 2 /\ db_results[j].match_id = 1

\* No task is running or waiting.
AllOver == queue = <<>> /\ \A w \in Workers : pc[w] \in {"idle", "done", "lost"} \/ ~Running(w)

\* C13: Results are append-only: every step, of whichever run, leaves the
\* Results there were as they were, in their places, and at most adds one
\* after them.
C13_ResultsAppendOnly ==
    [][/\ Len(db_results') \in {Len(db_results), Len(db_results) + 1}
       /\ SubSeq(db_results', 1, Len(db_results)) = db_results]_vars

\* The task has run twice, the second run after the first: the four Results
\* of the first run are followed by the four of the second.
C13_Witness ==
    /\ AllOver
    /\ Len(db_results) = 8
    /\ SubSeq(db_results, 1, 4) = SubSeq(db_results, 5, 8)
    /\ \A i \in 1..2 : db_results[i].document = 1

\* PENDING < PROCESSING < PROCESSED
StatusRank(status) ==
    CASE status = "PENDING" -> 0
      [] status = "PROCESSING" -> 1
      [] status = "PROCESSED" -> 2

\* C14, as claimed: no write of a run moves the stored status to an earlier
\* state than the one it held.
C14_StatusNeverDecreases ==
    [][StatusRank(db_submission'.status) >= StatusRank(db_submission.status)]_vars

\* C14, amended: a run writes PROCESSING (line 27) and then PROCESSED (line
\* 57) and nothing else writes the status; the stored status moves to an
\* earlier state only by the first write of a run for a submission that
\* another run has brought to PROCESSED.
C14_RunWritesInOrder ==
    [][/\ \A w \in Workers :
             /\ (pc[w] = "set_processing" /\ pc'[w] = "ingest")
                => db_submission'.status = "PROCESSING"
             /\ (pc[w] = "set_processed" /\ pc'[w] = "send_mail")
                => db_submission'.status = "PROCESSED"
       /\ db_submission' # db_submission
          => /\ db_submission'.email = db_submission.email
             /\ \E w \in Workers :
                   \/ (pc[w] = "set_processing" /\ pc'[w] = "ingest")
                   \/ (pc[w] = "set_processed" /\ pc'[w] = "send_mail"
                         /\ db_submission.status = "PROCESSING")
       /\ StatusRank(db_submission'.status) < StatusRank(db_submission.status)
          => /\ db_submission.status = "PROCESSED"
             /\ db_submission'.status = "PROCESSING"
             /\ \E w \in Workers : pc[w] = "set_processing" /\ pc'[w] = "ingest"]_vars

\* A run has stored PROCESSED and sent its mail, and the first write of
\* another run has put PROCESSING back.
C14_Witness ==
    /\ db_submission.status = "PROCESSING"
    /\ mails = <<1>>
    /\ \E w \in Workers : pc[w] = "ingest" /\ idx[w] = 1 /\ Running(w)

\* The Results of document d that name m.
ResultsFor(d, m) ==
    {i \in 1..Len(db_results) :
        db_results[i].document = d /\ db_results[i].match_id = m}

\* In a steady world: the pairs a run compares (d with the candidates the
\* corpus returns and with its siblings), and the one score of a pair.
ComparedWith(d) ==
    {ElasticId(i) : i \in 1..(CHOOSE n \in env.found : TRUE)} \cup (DocIds \ {d})

SteadyScore(d, m) == CHOOSE x \in env.similarity[<<d, m>>] : TRUE

\* C15: of two runs sent for the same submission neither is turned away by
\* the status: each run that is between its two writes has written
\* PROCESSING, and when both are over PROCESSED is stored, both have sent
\* their mail, every document has its aggregate and every pair above the
\* threshold has two Results, one of each run, every other pair none.
C15_BothRunsComplete ==
    /\ \A w \in Workers :
          pc[w] \in MidRun
          => /\ submission[w].status = "PROCESSING"
             /\ db_submission.status \in {"PROCESSING", "PROCESSED"}
    /\ AllOver
       => /\ db_submission.status = "PROCESSED"
          /\ db_submission.email # "None" => mails = <<1, 1>>
          /\ \A d \in DocIds :
                /\ db_documents[d].total_percentage >= 0
                /\ \A m \in Candidates \cup DocIds :
                      Cardinality(ResultsFor(d, m)) =
                          IF m \in ComparedWith(d)
                             /\ FloatGreater(SteadyScore(d, m), threshold)
                          THEN 2 ELSE 0

\* The two runs side by side: both have compared every document, neither
\* has written PROCESSED yet, and the first two Results are the same pair's,
\* one of each run.
C15_Witness ==
    /\ \A w \in 1..2 : pc[w] = "set_processed" /\ Running(w)
    /\ db_submission.status = "PROCESSING"
    /\ Len(db_results) = 8
    /\ db_results[1] = db_results[2]

\* Result r is created before Result q in a run that creates both: r is of
\* an earlier document of the batch, or of the same document and r is a
\* CORPUS Result and q an UPLOADED one, or both are of one type and r's
\* candidate was returned earlier (its sibling comes earlier in the batch).
CreatedBefore(r, q) ==
    \/ r.document < q.document
    \/ /\ r.document = q.document
       /\ \/ (r.match_type = "CORPUS" /\ q.match_type = "UPLOADED")
          \/ (r.match_type = q.match_type /\ r.match_id < q.match_id)

C17_StuckInProcessing ==
    [][/\ Len(queue') <= Len(queue)
       /\ \A w \in Workers :
             /\ (Running(w) /\ error'[w] # "none" /\ pc[w] \in MidRun)
                => /\ db_submission.status = "PROCESSING"
                   /\ db_submission' = db_submission
             /\ (~Running(w) /\ queue = <<>>)
                => /\ error'[w] = error[w] /\ pc'[w] = pc[w]
                   /\ db_submission' = db_submission]_vars

\* The worker died in the middle of the comparison: PROCESSING is stored,
\* some Results are, and no task is left.
C17_Witness ==
    /\ queue = <<>>
    /\ db_submission.status = "PROCESSING"
    /\ db_results # <<>>
    /\ \E w \in Workers : error[w] = "WorkerLostError" /\ pc[w] = "lost"
    /\ \A w \in Workers : pc[w] \in {"idle", "lost"}

\* What calls[w] is when the ingestion loop has run once for the first
\* `ingested` documents, compare_documents has been called `compared` times
\* and Elastic.find_similar once for the first `queried` documents.
CallsSoFar(ingested, compared, queried) ==
    [ingest |-> [d \in DocIds |-> IF d <= ingested THEN 1 ELSE 0],
     compare |-> compared,
     find_similar |-> [d \in DocIds |-> IF d <= queried THEN 1 ELSE 0]]

\* C18: in a run the ingestion loop takes every document once, in batch
\* order; compare_documents is called once, when the last document has been
\* ingested and saved; and in it Elastic.find_similar is called once for
\* each document.
C18_EachOnce ==
    \A w \in Workers :
        Running(w)
        => /\ pc[w] = "ingest"
              => calls[w] = CallsSoFar(idx[w] - 1, 0, 0)
           /\ pc[w] = "find_similar"
              => /\ calls[w] = CallsSoFar(NumDocs, 1, idx[w] - 1)
                 /\ \A d \in DocIds :
                       /\ documents[w][d].text # NoneText
                       /\ db_documents[d].text = documents[w][d].text
                       /\ db_documents[d].text_raw = documents[w][d].text_raw
           /\ pc[w] \in {"corpus", "uploaded", "save_total"}
              => calls[w] = CallsSoFar(NumDocs, 1, idx[w])
           /\ (pc[w] \in {"set_processed", "send_mail"}
                 \/ (pc[w] = "done" /\ arg[w] \in Submissions))
              => calls[w] = CallsSoFar(NumDocs, 1, NumDocs)

\* A run has returned although the first document failed ingestion: every
\* document was ingested once and queried once, in one comparison.
C18_Witness ==
    \E w \in Workers :
        /\ pc[w] = "done" /\ Running(w) /\ arg[w] \in Submissions
        /\ calls[w] = CallsSoFar(NumDocs, 1, NumDocs)
        /\ db_documents[1].text = EmptyText
        /\ db_submission.status = "PROCESSED"

\* In a steady world: the scores a run gets for document d, in the order of
\* its loops, and the aggregate lines 162-166 make of them.
SteadyScores(d) ==
    LET n == CHOOSE k \in env.found : TRUE
    IN  [k \in 1..(n + NumDocs - 1) |->
            SteadyScore(d, IF k <= n THEN ElasticId(k)
                           ELSE user_documents(d)[k - n])]

SteadyTotal(d) ==
    RoundUp(Average(FloatSum(SteadyScores(d)),
                    Cardinality(Matches(SteadyScores(d)))))

\* C19: with the batch and the collaborators' answers unchanged, every run
\* stores for a document the total_percentage those answers give, whatever
\* Results earlier runs have left; and when two runs are over every
\* document has twice the Results of one run and that same total.
C19_SameTotalEachRun ==
    /\ \A w \in Workers :
          Aggregated(w)
          => documents[w][LastDoc(w)].total_percentage = SteadyTotal(LastDoc(w))
    /\ AllOver
       => \A d \in DocIds :
             /\ db_documents[d].total_percentage = SteadyTotal(d)
             /\ Len(ResultsOf(d)) = 2 * Cardinality(Matches(SteadyScores(d)))

\* The second run, started when the first was over, has compared the last
\* document: the Results of the first run are all there, those of the
\* second follow, and the totals are the ones the first run stored (0.8 and
\* 0.3 for the first document: 1.11; 0.8 twice for the second: 0.8).
C19_Witness ==
    /\ pc[1] = "set_processed" /\ Running(1) /\ pc[2] = "idle" /\ queue = <<>>
    /\ mails = <<1>>
    /\ Len(db_results) = 6
    /\ SubSeq(db_results, 1, 3) = SubSeq(db_results, 4, 6)
    /\ db_documents[1].total_percentage = 111
    /\ db_documents[2].total_percentage = 80
    /\ documents[1][1].total_percentage = 111

\* C20: for every document compared_count never exceeds the number of
\* candidates the corpus returned, itself at most similar_count, plus the
\* NumDocs - 1 siblings; it is the number of pairs scored above the
\* threshold so far and the number of Results the run has created for the
\* document.
C20_MatchCountBounded ==
    \A w \in Workers :
        ((Running(w) /\ pc[w] \in {"corpus", "uploaded", "save_total"})
           \/ Aggregated(w))
        => LET d == IF Aggregated(w) THEN LastDoc(w) ELSE idx[w]
           IN  /\ Len(similar_documents[w]) <= similar_count
               /\ compared_count[w] <= Len(similar_documents[w]) + (NumDocs - 1)
               /\ compared_count[w] <= similar_count + (NumDocs - 1)
               /\ compared_count[w] = Cardinality(Matches(pair_scores[w]))
               /\ Len(pair_scores[w]) <= Len(similar_documents[w]) + (NumDocs - 1)
               /\ Len(ResultsOf(d)) = compared_count[w]

\* Every candidate and the sibling matched: compared_count is the number of
\* candidates plus NumDocs - 1, and so many Results the second document has.
C20_Witness ==
    \E w \in Workers :
        /\ Aggregated(w) /\ LastDoc(w) = NumDocs
        /\ Len(similar_documents[w]) = MaxRank
        /\ compared_count[w] = MaxRank + NumDocs - 1
        /\ Len(ResultsOf(NumDocs)) = MaxRank + NumDocs - 1

=============================================================================
